---- MODULE Spec2Model ----
(***************************************************************************)
(* A model of the voice-management layer of web-synth:                     *)
(*   src/classes/OscillatorBank.ts  (OscillatorBank)                       *)
(*   src/classes/Voice.ts           (Voice)                                *)
(* One Voice with the OscillatorBanks it owns and their Oscillators.  The  *)
(* host audio engine (GainNode, AudioContext) and the Oscillator class are *)
(* collaborators: the model records every call the two classes issue to    *)
(* them, in the order of issue.                                            *)
(*                                                                         *)
(* Arrays are sequences; the element at JavaScript index i is seq[i + 1].  *)
(* Objects carry an identity (id) handed out by a counter, so that "the    *)
(* same object" can be told from "an equal object".                        *)
(* Levels (gain values) are integers in hundredths: velocity 1 is the      *)
(* level 100, sustain is given in percent, velocity * sustain is their     *)
(* product.  Times and durations are integers.                             *)
(***************************************************************************)
EXTENDS Integers, Sequences, FiniteSets

\* ------------------------------------------------------------------ bounds

\* The longest spectrum (number of layers) given to the constructor or update.
MaxLayers == 2
\* The most oscillators a direct createOscillator call may grow a bank to.
MaxOscillators == 3

\* ------------------------------------------------------- program constants

\* private _pitch = 20
DefaultPitch == 20
\* value || 0.0000000001: the smallest positive level of the model (every
\* other positive level in use is a multiple of 50).
GainFloor == 1

\* ------------------------------------------------------------------ inputs

PartialA == [rate |-> 100, amplitude |-> 1, phase |-> 0]
PartialB == [rate |-> 200, amplitude |-> 1, phase |-> 0]
NoPartial == [rate |-> 0, amplitude |-> 0, phase |-> 0]
Partials == {PartialA, PartialB}

\* Partial lists of 0, 1 and 2 partials, with distinct partials at distinct places.
Layers == {<<>>, <<PartialA>>, <<PartialB, PartialA>>}

SeqsUpTo(S, n) == UNION {[1..k -> S] : k \in 0..n}
Spectra == SeqsUpTo(Layers, MaxLayers)

\* attack, decay, release: durations; sustain: percent of the peak level.
ADSRs ==
    { [attack |-> 1, decay |-> 1, sustain |-> 50, release |-> 2],
      [attack |-> 2, decay |-> 0, sustain |-> 0, release |-> 1] }

Pitches == {440, 880}
Velocities == {0, 1}
\* The time arguments a caller passes, and the host's currentTime when it calls.
Times == {1, 2}
CurrentTimes == {1}
\* What a read of gain.value may give: the host renders on its own clock.
GainReads == {0, 50}
\* Array indices a caller may pass, in and out of range, and "absent".
Absent == -100
Indices == {-4, -1, 0, 1, 3}
AddressIndices == {Absent, -1, 0, 1, 2}

\* -------------------------------------------------------------- the state

VARIABLES
    state,            \* Voice._state
    pitch,            \* Voice._pitch
    adsr,             \* Voice._adsr
    oscillatorBanks,  \* Voice._oscillatorBanks: a sequence of banks
    nextId,           \* the identity the next created object gets
    spectrumLen,      \* history: layers of the spectrum last applied to the Voice
    last              \* history: the last operation, its arguments, the state
                      \* it started from, what it returned and the calls it issued

vars == <<state, pitch, adsr, oscillatorBanks, nextId, spectrumLen, last>>

\* ------------------------------------------------------------ JavaScript

Min(a, b) == IF a < b THEN a ELSE b
Max(a, b) == IF a > b THEN a ELSE b

\* A reference a method returns: undefined, a bank or an oscillator.
Undefined == [kind |-> "undefined", id |-> 0]
Ref(kind, obj) == [kind |-> kind, id |-> obj.id]

\* arr[index]: the element, or nothing (the empty sequence) out of range.
At(arr, index) ==
    IF index \in 0..(Len(arr) - 1) THEN <<arr[index + 1]>> ELSE <<>>

\* Array.prototype.splice(index, 1): a negative index counts from the end
\* (clamped at 0), an index past the end is the end.
SpliceStart(len, index) ==
    IF index < 0 THEN Max(len + index, 0) ELSE Min(index, len)

SpliceRemoved(arr, index) ==
    LET s == SpliceStart(Len(arr), index)
    IN  IF s < Len(arr) THEN <<arr[s + 1]>> ELSE <<>>

SpliceRest(arr, index) ==
    LET s == SpliceStart(Len(arr), index)
    IN  IF s < Len(arr)
        THEN SubSeq(arr, 1, s) \o SubSeq(arr, s + 2, Len(arr))
        ELSE arr

\* The one element of a one-element set: Only({f(x) : x \in {e}}) is f(e) with
\* e computed once.
Only(S) == CHOOSE x \in S : TRUE

RECURSIVE Concat(_)
Concat(seqs) ==
    IF seqs = <<>> THEN <<>> ELSE Head(seqs) \o Concat(Tail(seqs))

\* --------------------------------------------------------------- the calls

\* One call issued to a collaborator: t names receiver and method, id the
\* receiving object (0: the Voice's gain stage), a and b the arguments.
NoArg == -1
Call(t, id, a, b) == [t |-> t, id |-> id, a |-> a, b |-> b, partial |-> NoPartial]
CallP(t, id, partial) == [t |-> t, id |-> id, a |-> NoArg, b |-> NoArg, partial |-> partial]

VoiceGain == 0

\* The host's gain stage: exponentialRampToValueAtTime(value, time) schedules
\* a change, cancelScheduledValues(time) removes every scheduled change at or
\* after time.  Scheduled(pending, calls) is what is scheduled on the Voice's
\* gain stage once the calls are made, in order, on a stage that had pending
\* scheduled.
Cancelled(pending, time) == {e \in pending : e.time < time}

RECURSIVE Scheduled(_, _)
Scheduled(pending, calls) ==
    IF calls = <<>> THEN pending
    ELSE LET c == Head(calls)
         IN  Scheduled(IF c.t = "gain.cancelScheduledValues"
                         THEN Cancelled(pending, c.a)
                       ELSE IF c.t = "gain.exponentialRamp"
                         THEN pending \cup {[value |-> c.a, time |-> c.b]}
                       ELSE pending,
                       Tail(calls))

\* ------------------------------------------------------------- Oscillator

\* An Oscillator as this layer sees it: its identity and the pitch it last got
\* play with.  The partial it is built from or updated with is in the call.
NeverPlayed == 0

\* new Oscillator({rate, amplitude, phase, audioContext, destination})
NewOscillator(id) == [id |-> id, pitch |-> NeverPlayed]

\* osc.play(pitch, time)
OscPlay(osc, p) == [osc EXCEPT !.pitch = p]

\* --------------------------------------------------------- OscillatorBank

\* What a bank method leaves behind: the bank, the identity counter, the
\* calls issued, and the value returned.
R(bank, nid, calls, ret) ==
    [bank |-> bank, nid |-> nid, calls |-> calls, ret |-> ret]

\* buildOscillators(partials): one new Oscillator per partial, in order.
buildOscillators(partials, nid) ==
    [i \in 1..Len(partials) |-> NewOscillator(nid + i - 1)]

\* setGain(value, currentTime): a linear ramp of the bank's gain stage.
bankSetGain(bank, value, time) ==
    R(bank, 0, <<Call("bank.gain.linearRamp", bank.id, value, time)>>, Undefined)

\* constructor({partials, audioContext, destination}): the bank gets the
\* identity nid, its oscillators the identities after it.
NewOscillatorBank(partials, nid, now) ==
    LET oscs == buildOscillators(partials, nid + 1)
        bank == [id |-> nid, state |-> "ready", pitch |-> DefaultPitch,
                 oscillators |-> oscs, layerLen |-> Len(partials)]
    IN  R(bank, nid + 1 + Len(partials),
          <<Call("bank.gain.connect", nid, VoiceGain, NoArg)>>
            \o [i \in 1..Len(oscs) |-> CallP("osc.new", oscs[i].id, partials[i])]
            \o bankSetGain(bank, 100, now).calls,
          Undefined)

\* oscillator(index)
oscillator(bank, index) ==
    LET osc == At(bank.oscillators, index)
    IN  IF osc = <<>> THEN Undefined ELSE Ref("oscillator", osc[1])

\* play(pitch, time)
bankPlay(bank, p, time) ==
    IF bank.state = "used" THEN R(bank, 0, <<>>, Undefined)
    ELSE R([bank EXCEPT !.pitch = p,
                        !.oscillators = [i \in 1..Len(@) |-> OscPlay(@[i], p)],
                        !.state = "playing"],
           0,
           [i \in 1..Len(bank.oscillators) |->
               Call("osc.play", bank.oscillators[i].id, p, time)],
           Undefined)

\* stop marking the bank used.
bankStopRetires(bank, time) ==
    R([bank EXCEPT !.state = "used"], 0,
      [i \in 1..Len(bank.oscillators) |->
          Call("osc.stop", bank.oscillators[i].id, time, NoArg)],
      Undefined)

\* stop(time)
bankStop(bank, time) ==
    R(bank, 0,
      [i \in 1..Len(bank.oscillators) |->
          Call("osc.stop", bank.oscillators[i].id, time, NoArg)],
      Undefined)

\* removeOscillator(index)
removeOscillator(bank, index) ==
    LET removed == SpliceRemoved(bank.oscillators, index)
        rest == [bank EXCEPT !.oscillators = SpliceRest(@, index)]
    IN  IF removed = <<>> THEN R(rest, 0, <<>>, Undefined)
        ELSE R(rest, 0, <<Call("osc.destroy", removed[1].id, NoArg, NoArg)>>,
               Ref("oscillator", removed[1]))

\* createOscillator never playing the oscillator it makes.
createOscillatorUnplayed(bank, partial, nid) ==
    R([bank EXCEPT !.oscillators = Append(@, NewOscillator(nid))],
      nid + 1,
      <<CallP("osc.new", nid,
              [rate |-> partial.rate, amplitude |-> partial.amplitude,
               phase |-> partial.phase])>>,
      Undefined)

\* createOscillator({rate, amplitude, phase}): the new oscillator gets the
\* identity nid; play without a time leaves the time to the Oscillator.
createOscillator(bank, partial, nid) ==
    LET newOscillator == NewOscillator(nid)
        playing == bank.state = "playing"
        pushed == IF playing THEN OscPlay(newOscillator, bank.pitch)
                  ELSE newOscillator
    IN  R([bank EXCEPT !.oscillators = Append(@, pushed)],
          nid + 1,
          <<CallP("osc.new", nid,
                  [rate |-> partial.rate, amplitude |-> partial.amplitude,
                   phase |-> partial.phase])>>
            \o (IF playing THEN <<Call("osc.play", nid, bank.pitch, NoArg)>>
                ELSE <<>>),
          Undefined)

\* update leaving the oscillators it keeps without their update.
updateCommonSkipped(r, partials, i, commonLength) == r

\* update: for (let i = 0; i < commonLength; i++) osc.update(partial)
RECURSIVE updateCommon(_, _, _, _)
updateCommon(r, partials, i, commonLength) ==
    IF i >= commonLength THEN r
    ELSE LET osc == At(r.bank.oscillators, i)
             partial == At(partials, i)
         IN  IF osc = <<>> \/ partial = <<>>
             THEN updateCommon(r, partials, i + 1, commonLength)
             ELSE Only({updateCommon(x, partials, i + 1, commonLength) :
                        x \in {R(r.bank, r.nid,
                                 Append(r.calls,
                                        CallP("osc.update", osc[1].id, partial[1])),
                                 Undefined)}})

\* updateRemove removing once, whatever the difference.
updateRemoveOnce(r, commonLength, i, difference) ==
    Only({R(one.bank, r.nid, r.calls \o one.calls, Undefined) :
          one \in {removeOscillator(r.bank, commonLength)}})

\* update: for (let i = 0; i < difference; i++) removeOscillator(commonLength)
RECURSIVE updateRemove(_, _, _, _)
updateRemove(r, commonLength, i, difference) ==
    IF i >= difference THEN r
    ELSE Only({updateRemove(R(one.bank, r.nid, r.calls \o one.calls, Undefined),
                            commonLength, i + 1, difference) :
                  one \in {removeOscillator(r.bank, commonLength)}})

\* updateCreate reading partials[i] for partials[commonLength + i].
RECURSIVE updateCreateFromStart(_, _, _, _, _)
updateCreateFromStart(r, partials, commonLength, i, count) ==
    IF i >= count THEN r
    ELSE LET partial == At(partials, i)
         IN  IF partial = <<>>
             THEN updateCreateFromStart(r, partials, commonLength, i + 1, count)
             ELSE Only({updateCreateFromStart(
                            R(one.bank, one.nid, r.calls \o one.calls, Undefined),
                            partials, commonLength, i + 1, count) :
                        one \in {createOscillator(r.bank, partial[1], r.nid)}})

\* update: for (let i = 0; i < -difference; i++) createOscillator(partial)
RECURSIVE updateCreate(_, _, _, _, _)
updateCreate(r, partials, commonLength, i, count) ==
    IF i >= count THEN r
    ELSE LET partial == At(partials, commonLength + i)
         IN  IF partial = <<>>
             THEN updateCreate(r, partials, commonLength, i + 1, count)
             ELSE Only({updateCreate(
                            R(one.bank, one.nid, r.calls \o one.calls, Undefined),
                            partials, commonLength, i + 1, count) :
                        one \in {createOscillator(r.bank, partial[1], r.nid)}})

\* update({partials})
bankUpdate(bank, partials, nid) ==
    LET commonLength == Min(Len(bank.oscillators), Len(partials))
        difference == Len(bank.oscillators) - Len(partials)
        common(r) == updateCommon(r, partials, 0, commonLength)
        remove(r) == IF difference > 0
                     THEN updateRemove(r, commonLength, 0, difference)
                     ELSE r
        create(r) == IF difference < 0
                     THEN updateCreate(r, partials, commonLength, 0, -difference)
                     ELSE r
    IN  Only({R([r3.bank EXCEPT !.layerLen = Len(partials)], r3.nid, r3.calls,
                Undefined) :
              r3 \in {create(r2) : r2 \in {remove(r1) :
                  r1 \in {common(r0) : r0 \in {R(bank, nid, <<>>, Undefined)}}}}})

\* shiftRate(shift): setRate(osc.rate + shift) on every oscillator; the rate
\* itself is held by the Oscillator, the call carries the shift.
shiftRate(bank, shift) ==
    R(bank, 0,
      [i \in 1..Len(bank.oscillators) |->
          Call("osc.setRate", bank.oscillators[i].id, shift, NoArg)],
      Undefined)

\* destroy()
bankDestroy(bank, now) ==
    LET disconnect == <<Call("bank.gain.disconnect", bank.id, NoArg, NoArg)>>
    IN  IF bank.state = "playing"
        THEN Only({R(stopped.bank, 0, stopped.calls \o disconnect, Undefined) :
                   stopped \in {bankStop(bank, now)}})
        ELSE R(bank, 0, disconnect, Undefined)


\* ------------------------------------------------------------------ Voice

\* The Voice's fields as one value, and what a Voice method leaves behind.
Fields ==
    [state |-> state, pitch |-> pitch, adsr |-> adsr,
     oscillatorBanks |-> oscillatorBanks, spectrumLen |-> spectrumLen,
     nextId |-> nextId]

VR(v, calls, ret) == [v |-> v, calls |-> calls, ret |-> ret]

\* Identities are names: nothing in the code depends on which name an object
\* has.  Every operation starts from the Voice with its objects renamed
\* 1, 2, ... in the order of the collections (a bank, then its oscillators),
\* so that a state holds the identities only up to renaming; within one
\* operation an object keeps its name and a new object gets a new one.
RECURSIVE Offset(_, _)
Offset(banks, i) ==
    IF i <= 1 THEN 1
    ELSE Offset(banks, i - 1) + 1 + Len(banks[i - 1].oscillators)

Renamed(v) ==
    LET banks == v.oscillatorBanks
    IN  [v EXCEPT
           !.oscillatorBanks =
               [i \in 1..Len(banks) |->
                   [banks[i] EXCEPT
                      !.id = Offset(banks, i),
                      !.oscillators =
                          [j \in 1..Len(banks[i].oscillators) |->
                              [banks[i].oscillators[j] EXCEPT
                                 !.id = Offset(banks, i) + j]]]],
           !.nextId = Offset(banks, Len(banks) + 1)]

\* The Voice an operation starts from.
Start == Renamed(Fields)

\* The levels play and release pass to setGain, in hundredths.
VelocityLevel(velocity) == velocity * 100

\* The sustain level taken for the peak.
SustainLevelPeak(velocity, a) == velocity * 100
SustainLevel(velocity, a) == velocity * a.sustain

\* The guard left out, and the guard testing the wrong state.
RetiredNever(v) == FALSE
RetiredIfPlaying(v) == v.state = "playing"

\* if (this._state === "used") return;
Retired(v) == v.state = "used"

\* setGain passing the value on as it is.
setGainUnfloored(value, time) ==
    <<Call("gain.exponentialRamp", VoiceGain, value, time)>>

\* setGain(value, time): an exponential ramp; a falsy value becomes the floor.
setGain(value, time) ==
    <<Call("gain.exponentialRamp", VoiceGain,
           IF value = 0 THEN GainFloor ELSE value, time)>>

\* createOscillatorBank never playing the bank it makes.
createOscillatorBankUnplayed(v, partials, now) ==
    Only({VR([v EXCEPT !.oscillatorBanks = Append(@, m.bank), !.nextId = m.nid],
             <<Call("bank.new", m.bank.id, Len(partials), NoArg)>> \o m.calls,
             Undefined) :
          m \in {NewOscillatorBank(partials, v.nextId, now)}})

\* createOscillatorBank({partials}, oscillators): the new bank is played at
\* the Voice's pitch (at the bank's current time) when the Voice is playing.
createOscillatorBank(v, partials, now) ==
    LET made == NewOscillatorBank(partials, v.nextId, now)
        played(bank) == IF v.state = "playing" THEN bankPlay(bank, v.pitch, now)
                        ELSE R(bank, 0, <<>>, Undefined)
    IN  Only({VR([v EXCEPT !.oscillatorBanks = Append(@, p.bank),
                           !.nextId = m.nid],
                 <<Call("bank.new", m.bank.id, Len(partials), NoArg)>> \o m.calls
                   \o (IF v.state = "playing"
                       THEN <<Call("bank.play", m.bank.id, v.pitch, now)>> \o p.calls
                       ELSE <<>>),
                 Undefined) :
              <<m, p>> \in {<<n, played(n.bank)>> : n \in {made}}})

\* buildOscillatorBanks(spectrum)
RECURSIVE buildOscillatorBanks(_, _, _, _)
buildOscillatorBanks(r, spectrum, i, now) ==
    IF i >= Len(spectrum) THEN r
    ELSE Only({buildOscillatorBanks(VR(one.v, r.calls \o one.calls, Undefined),
                                    spectrum, i + 1, now) :
                  one \in {createOscillatorBank(r.v, spectrum[i + 1], now)}})

\* constructor({id, spectrum, adsr, audioContext, destination})
NewVoice(spectrum, a, now) ==
    LET v0 == [state |-> "ready", pitch |-> DefaultPitch, adsr |-> a,
               oscillatorBanks |-> <<>>, spectrumLen |-> Len(spectrum),
               nextId |-> 1]
    IN  Only({buildOscillatorBanks(r, spectrum, 0, now) :
              r \in {VR(v0, <<Call("gain.connect", VoiceGain, NoArg, NoArg)>>,
                        Undefined)}})

\* play: for (const bank of this._oscillatorBanks) bank.play(this._pitch, time)
playBanks(banks, p, time) ==
    [banks |-> [i \in 1..Len(banks) |-> bankPlay(banks[i], p, time).bank],
     calls |-> Concat([i \in 1..Len(banks) |->
                  <<Call("bank.play", banks[i].id, p, time)>>
                    \o bankPlay(banks[i], p, time).calls])]

\* play forwarding to the banks before it touches the gain stage.
playBanksFirst(v, p, velocity, time, now, read) ==
    IF Retired(v) THEN VR(v, <<>>, Undefined)
    ELSE LET first == IF v.state = "playing"
                      THEN <<Call("gain.cancelScheduledValues", VoiceGain, time, NoArg)>>
                             \o setGain(read, time)
                             \o setGain(SustainLevel(velocity, v.adsr), time)
                      ELSE setGain(0, now)
             banks == playBanks(v.oscillatorBanks, p, time)
         IN  VR([v EXCEPT !.pitch = p, !.oscillatorBanks = banks.banks,
                          !.state = "playing"],
                banks.calls \o first
                  \o setGain(VelocityLevel(velocity), time + v.adsr.attack)
                  \o setGain(SustainLevel(velocity, v.adsr),
                             time + v.adsr.attack + v.adsr.decay),
                Undefined)

\* play(pitch, velocity, time); now is the host's current time and read the
\* value gain.value gives.
play(v, p, velocity, time, now, read) ==
    IF Retired(v) THEN VR(v, <<>>, Undefined)
    ELSE LET first == IF v.state = "playing"
                      THEN <<Call("gain.cancelScheduledValues", VoiceGain, time, NoArg)>>
                             \o setGain(read, time)
                             \o setGain(SustainLevel(velocity, v.adsr), time)
                      ELSE setGain(0, now)
             banks == playBanks(v.oscillatorBanks, p, time)
             timeAttackEnds == time + v.adsr.attack
             timeDecayEnds == timeAttackEnds + v.adsr.decay
         IN  VR([v EXCEPT !.pitch = p, !.oscillatorBanks = banks.banks,
                          !.state = "playing"],
                first \o banks.calls
                  \o setGain(VelocityLevel(velocity), timeAttackEnds)
                  \o setGain(SustainLevel(velocity, v.adsr), timeDecayEnds),
                Undefined)

\* release returning early on a used Voice, as play does.
releaseGuarded(v, time, read) ==
    IF v.state = "used" THEN VR(v, <<>>, Undefined)
    ELSE VR(v,
            <<Call("gain.cancelScheduledValues", VoiceGain, time, NoArg),
              Call("gain.exponentialRamp", VoiceGain,
                   IF read = 0 THEN GainFloor ELSE read, time),
              Call("gain.exponentialRamp", VoiceGain, GainFloor,
                   time + v.adsr.release)>>,
            Undefined)

\* release marking the Voice free again.
releaseToReady(v, time, read) ==
    VR([v EXCEPT !.state = IF @ = "playing" THEN "ready" ELSE @],
       <<Call("gain.cancelScheduledValues", VoiceGain, time, NoArg),
         Call("gain.exponentialRamp", VoiceGain,
              IF read = 0 THEN GainFloor ELSE read, time),
         Call("gain.exponentialRamp", VoiceGain, GainFloor,
              time + v.adsr.release)>>,
       Undefined)

\* release(time)
release(v, time, read) ==
    LET timeReleaseEnds == time + v.adsr.release
    IN  VR(v,
           <<Call("gain.cancelScheduledValues", VoiceGain, time, NoArg)>>
             \o setGain(read, time)
             \o setGain(0, timeReleaseEnds),
           Undefined)

\* Only an absent index taken for falsy.
FalsyAbsentOnly(index) == index = Absent

\* A falsy index: undefined or 0.
Falsy(index) == index = Absent \/ index = 0

\* get(address)
get(v, oscIndex, partialIndex) ==
    IF Falsy(oscIndex) THEN Undefined
    ELSE LET oscillatorBank == At(v.oscillatorBanks, oscIndex)
         IN  IF oscillatorBank = <<>> THEN Undefined
             ELSE IF Falsy(partialIndex) THEN Ref("bank", oscillatorBank[1])
             ELSE oscillator(oscillatorBank[1], partialIndex)

\* removeOscillatorBank(index)
removeOscillatorBank(v, index, now) ==
    LET removed == SpliceRemoved(v.oscillatorBanks, index)
        rest == [v EXCEPT !.oscillatorBanks = SpliceRest(@, index)]
    IN  IF removed = <<>> THEN VR(rest, <<>>, Undefined)
        ELSE VR(rest,
                <<Call("bank.destroy", removed[1].id, NoArg, NoArg)>>
                  \o bankDestroy(removed[1], now).calls,
                Ref("bank", removed[1]))

\* update leaving the banks it keeps as they are.
voiceUpdateCommonSkipped(r, spectrum, i, commonLength) == r

\* update: for (let i = 0; i < commonLength; i++) bank.update(layer)
RECURSIVE voiceUpdateCommon(_, _, _, _)
voiceUpdateCommon(r, spectrum, i, commonLength) ==
    IF i >= commonLength THEN r
    ELSE LET bank == At(r.v.oscillatorBanks, i)
             layer == At(spectrum, i)
         IN  IF bank = <<>> \/ layer = <<>>
             THEN voiceUpdateCommon(r, spectrum, i + 1, commonLength)
             ELSE Only({voiceUpdateCommon(
                            VR([r.v EXCEPT !.oscillatorBanks[i + 1] = one.bank,
                                           !.nextId = one.nid],
                               r.calls
                                 \o <<Call("bank.update", bank[1].id, Len(layer[1]),
                                           NoArg)>>
                                 \o one.calls,
                               Undefined),
                            spectrum, i + 1, commonLength) :
                        one \in {bankUpdate(bank[1], layer[1], r.v.nextId)}})

\* voiceUpdateRemove removing the last bank each time.
RECURSIVE voiceUpdateRemoveLast(_, _, _, _, _)
voiceUpdateRemoveLast(r, commonLength, i, difference, now) ==
    IF i >= difference THEN r
    ELSE Only({voiceUpdateRemoveLast(VR(one.v, r.calls \o one.calls, Undefined),
                                     commonLength, i + 1, difference, now) :
                  one \in {removeOscillatorBank(r.v, -1, now)}})

\* update: for (let i = 0; i < difference; i++) removeOscillatorBank(commonLength)
RECURSIVE voiceUpdateRemove(_, _, _, _, _)
voiceUpdateRemove(r, commonLength, i, difference, now) ==
    IF i >= difference THEN r
    ELSE Only({voiceUpdateRemove(VR(one.v, r.calls \o one.calls, Undefined),
                                 commonLength, i + 1, difference, now) :
                  one \in {removeOscillatorBank(r.v, commonLength, now)}})

\* update: for (let i = 0; i < -difference; i++) createOscillatorBank(bank)
RECURSIVE voiceUpdateCreate(_, _, _, _, _, _)
voiceUpdateCreate(r, spectrum, commonLength, i, count, now) ==
    IF i >= count THEN r
    ELSE LET layer == At(spectrum, commonLength + i)
         IN  IF layer = <<>>
             THEN voiceUpdateCreate(r, spectrum, commonLength, i + 1, count, now)
             ELSE Only({voiceUpdateCreate(
                            VR(one.v, r.calls \o one.calls, Undefined),
                            spectrum, commonLength, i + 1, count, now) :
                        one \in {createOscillatorBank(r.v, layer[1], now)}})

\* update(spectrum)
update(v, spectrum, now) ==
    IF Retired(v) THEN VR(v, <<>>, Undefined)
    ELSE LET commonLength == Min(Len(v.oscillatorBanks), Len(spectrum))
             difference == Len(v.oscillatorBanks) - Len(spectrum)
             common(r) == voiceUpdateCommon(r, spectrum, 0, commonLength)
             remove(r) == IF difference > 0
                          THEN voiceUpdateRemove(r, commonLength, 0, difference, now)
                          ELSE r
             create(r) == IF difference < 0
                          THEN voiceUpdateCreate(r, spectrum, commonLength, 0,
                                                 -difference, now)
                          ELSE r
         IN  Only({VR([r3.v EXCEPT !.spectrumLen = Len(spectrum)], r3.calls,
                      Undefined) :
                   r3 \in {create(r2) : r2 \in {remove(r1) :
                       r1 \in {common(r0) : r0 \in {VR(v, <<>>, Undefined)}}}}})

\* updateAdsr cancelling what is scheduled on the gain stage.
updateAdsrCancelling(v, a) ==
    VR([v EXCEPT !.adsr = a],
       <<Call("gain.cancelScheduledValues", VoiceGain, 0, NoArg)>>, Undefined)

\* updateAdsr(adsr)
updateAdsr(v, a) == VR([v EXCEPT !.adsr = a], <<>>, Undefined)

\* getOscillators(): every oscillator of every bank, bank by bank.
getOscillators(v) ==
    Concat([i \in 1..Len(v.oscillatorBanks) |->
        [j \in 1..Len(v.oscillatorBanks[i].oscillators) |->
            Ref("oscillator", v.oscillatorBanks[i].oscillators[j])]])

\* destroy destroying the banks and letting go of them.
destroyWithBanks(v, now) ==
    VR([v EXCEPT !.state = "used", !.oscillatorBanks = <<>>],
       Concat([i \in 1..Len(v.oscillatorBanks) |->
           <<Call("bank.destroy", v.oscillatorBanks[i].id, NoArg, NoArg)>>
             \o bankDestroy(v.oscillatorBanks[i], now).calls])
         \o <<Call("gain.disconnect", VoiceGain, NoArg, NoArg)>>,
       Undefined)

\* destroy()
destroy(v, now) ==
    LET stopped == [i \in 1..Len(v.oscillatorBanks) |->
                       bankStop(v.oscillatorBanks[i], now)]
    IN  VR([v EXCEPT !.state = "used",
                     !.oscillatorBanks = [i \in 1..Len(@) |-> stopped[i].bank]],
           Concat([i \in 1..Len(v.oscillatorBanks) |->
               <<Call("bank.stop", v.oscillatorBanks[i].id, now, NoArg)>>
                 \o stopped[i].calls])
             \o <<Call("gain.disconnect", VoiceGain, NoArg, NoArg)>>,
           Undefined)


\* ---------------------------------------------------------- the operations

NoAdsr == [attack |-> 0, decay |-> 0, sustain |-> 0, release |-> 0]

\* The record of an operation before its arguments are filled in.
NoLast ==
    [op |-> "none", bank |-> NoArg, p |-> NoArg, velocity |-> NoArg,
     time |-> NoArg, now |-> NoArg, read |-> NoArg, partials |-> <<>>,
     spectrum |-> <<>>, index |-> NoArg, oscIndex |-> NoArg,
     partialIndex |-> NoArg, value |-> NoArg, adsr |-> NoAdsr,
     pre |-> [state |-> "none", pitch |-> NoArg, adsr |-> NoAdsr,
              oscillatorBanks |-> <<>>, spectrumLen |-> 0, nextId |-> 1],
     ret |-> Undefined, list |-> <<>>, calls |-> <<>>]

\* The Voice becomes v; the operation l, begun from the Voice v0, is recorded
\* with what it returned and the calls it issued.
Becomes(v0, v, l, ret, calls) ==
    /\ state' = v.state
    /\ pitch' = v.pitch
    /\ adsr' = v.adsr
    /\ oscillatorBanks' = v.oscillatorBanks
    /\ spectrumLen' = v.spectrumLen
    /\ nextId' = v.nextId
    /\ last' = [l EXCEPT !.pre = v0, !.ret = ret, !.calls = calls]

\* The bank at index b becomes r.bank (a call on voice.oscillatorBanks[b]).
BankBecomes(v0, b, r, nid, l) ==
    Becomes(v0, [v0 EXCEPT !.oscillatorBanks[b + 1] = r.bank, !.nextId = nid],
            [l EXCEPT !.bank = b], r.ret, r.calls)

BankIndices == 0..(Len(oscillatorBanks) - 1)

Init ==
    \E spectrum \in Spectra, a \in ADSRs, now \in CurrentTimes :
    \E r \in {NewVoice(spectrum, a, now)} :
        /\ state = r.v.state
        /\ pitch = r.v.pitch
        /\ adsr = r.v.adsr
        /\ oscillatorBanks = r.v.oscillatorBanks
        /\ spectrumLen = r.v.spectrumLen
        /\ nextId = r.v.nextId
        /\ last = [NoLast EXCEPT !.op = "construct", !.spectrum = spectrum,
                                 !.adsr = a, !.now = now, !.calls = r.calls]

Play ==
    \E p \in Pitches, velocity \in Velocities, time \in Times :
    \E now \in IF state = "ready" THEN CurrentTimes ELSE {NoArg} :
    \E read \in IF state = "playing" THEN GainReads ELSE {NoArg} :
    \E v0 \in {Start} :
    \E r \in {play(v0, p, velocity, time, now, read)} :
        Becomes(v0, r.v, [NoLast EXCEPT !.op = "play", !.p = p,
                                        !.velocity = velocity, !.time = time,
                                        !.now = now, !.read = read],
                r.ret, r.calls)

Release ==
    \E time \in Times, read \in GainReads :
    \E v0 \in {Start} :
    \E r \in {release(v0, time, read)} :
        Becomes(v0, r.v, [NoLast EXCEPT !.op = "release", !.time = time,
                                        !.read = read],
                r.ret, r.calls)

Get ==
    \E oscIndex \in AddressIndices, partialIndex \in AddressIndices :
    \E v0 \in {Start} :
        Becomes(v0, v0, [NoLast EXCEPT !.op = "get", !.oscIndex = oscIndex,
                                       !.partialIndex = partialIndex],
                get(v0, oscIndex, partialIndex), <<>>)

Update ==
    \E spectrum \in Spectra, now \in CurrentTimes :
    \E v0 \in {Start} :
    \E r \in {update(v0, spectrum, now)} :
        Becomes(v0, r.v, [NoLast EXCEPT !.op = "update", !.spectrum = spectrum,
                                        !.now = now],
                r.ret, r.calls)

SetGain ==
    \E value \in {0, 100}, time \in Times :
    \E v0 \in {Start} :
        Becomes(v0, v0, [NoLast EXCEPT !.op = "setGain", !.value = value,
                                       !.time = time],
                Undefined, setGain(value, time))

UpdateAdsr ==
    \E a \in ADSRs :
    \E v0 \in {Start} :
    \E r \in {updateAdsr(v0, a)} :
        Becomes(v0, r.v, [NoLast EXCEPT !.op = "updateAdsr", !.adsr = a],
                r.ret, r.calls)

GetOscillators ==
    \E v0 \in {Start} :
        Becomes(v0, v0, [NoLast EXCEPT !.op = "getOscillators",
                                       !.list = getOscillators(v0)],
                Undefined, <<>>)

Destroy ==
    \E now \in CurrentTimes :
    \E v0 \in {Start} :
    \E r \in {destroy(v0, now)} :
        Becomes(v0, r.v, [NoLast EXCEPT !.op = "destroy", !.now = now],
                r.ret, r.calls)

\* The operations of an owned bank, called on voice.oscillatorBanks[b].

BankPlay ==
    \E b \in BankIndices, p \in Pitches, time \in Times :
    \E v0 \in {Start} :
    \E r \in {bankPlay(v0.oscillatorBanks[b + 1], p, time)} :
        BankBecomes(v0, b, r, v0.nextId,
                    [NoLast EXCEPT !.op = "bank.play", !.p = p, !.time = time])

BankStop ==
    \E b \in BankIndices, time \in Times :
    \E v0 \in {Start} :
    \E r \in {bankStop(v0.oscillatorBanks[b + 1], time)} :
        BankBecomes(v0, b, r, v0.nextId,
                    [NoLast EXCEPT !.op = "bank.stop", !.time = time])

BankUpdate ==
    \E b \in BankIndices, partials \in Layers :
    \E v0 \in {Start} :
    \E r \in {bankUpdate(v0.oscillatorBanks[b + 1], partials, v0.nextId)} :
        BankBecomes(v0, b, r, r.nid,
                    [NoLast EXCEPT !.op = "bank.update", !.partials = partials])

BankRemoveOscillator ==
    \E b \in BankIndices, index \in Indices :
    \E v0 \in {Start} :
    \E r \in {removeOscillator(v0.oscillatorBanks[b + 1], index)} :
        BankBecomes(v0, b, r, v0.nextId,
                    [NoLast EXCEPT !.op = "bank.removeOscillator", !.index = index])

BankCreateOscillator ==
    \E b \in BankIndices, partial \in Partials :
    \E v0 \in {Start} :
        /\ Len(v0.oscillatorBanks[b + 1].oscillators) < MaxOscillators
        /\ \E r \in {createOscillator(v0.oscillatorBanks[b + 1], partial, v0.nextId)} :
               BankBecomes(v0, b, r, r.nid,
                           [NoLast EXCEPT !.op = "bank.createOscillator",
                                          !.partials = <<partial>>])

BankSetGain ==
    \E b \in BankIndices, time \in Times :
    \E v0 \in {Start} :
    \E r \in {bankSetGain(v0.oscillatorBanks[b + 1], 50, time)} :
        BankBecomes(v0, b, r, v0.nextId,
                    [NoLast EXCEPT !.op = "bank.setGain", !.value = 50,
                                   !.time = time])

BankShiftRate ==
    \E b \in BankIndices :
    \E v0 \in {Start} :
    \E r \in {shiftRate(v0.oscillatorBanks[b + 1], 1)} :
        BankBecomes(v0, b, r, v0.nextId,
                    [NoLast EXCEPT !.op = "bank.shiftRate", !.value = 1])

BankDestroy ==
    \E b \in BankIndices, now \in CurrentTimes :
    \E v0 \in {Start} :
    \E r \in {bankDestroy(v0.oscillatorBanks[b + 1], now)} :
        BankBecomes(v0, b, r, v0.nextId,
                    [NoLast EXCEPT !.op = "bank.destroy", !.now = now])

\* The Voice's own operations.
VoiceNext ==
    \/ Play \/ Release \/ Get \/ Update \/ SetGain \/ UpdateAdsr
    \/ GetOscillators \/ Destroy

\* The operations of an owned bank that change its oscillator collection.
ResizeNext == BankUpdate \/ BankRemoveOscillator \/ BankCreateOscillator

\* The other operations of an owned bank.
BankNext == BankPlay \/ BankStop \/ BankSetGain \/ BankShiftRate \/ BankDestroy

\* Every public operation of the Voice and of the banks it owns.
Next == VoiceNext \/ ResizeNext \/ BankNext

Spec == Init /\ [][Next]_vars

\* The Voice driven through its own operations only.
SpecVoice == Init /\ [][VoiceNext]_vars

\* The operations that change the collections or the states that gate the
\* changes: play, update and destroy of the Voice, and update,
\* createOscillator and removeOscillator called on its banks from outside.
SpecCollections == Init /\ [][Play \/ Update \/ Destroy \/ ResizeNext]_vars

\* The Voice and its banks reconciled again and again, ready or playing.
SpecReconcile == Init /\ [][Play \/ Update \/ BankUpdate]_vars

\* One bank driven through its own operations: the only bank of a Voice that
\* is left alone.
InitBank == Init /\ Len(oscillatorBanks) = 1

SpecBank == InitBank /\ [][ResizeNext \/ BankNext]_vars

\* One bank driven through its own operations while its Voice may be
\* destroyed, which stops the bank.
SpecBankOwned == InitBank /\ [][ResizeNext \/ BankNext \/ Destroy]_vars

\* ------------------------------------------------------------ the claims

\* The calls of the last operation with the given name, in order of issue.
CallsOf(t) == SelectSeq(last.calls, LAMBDA c : c.t = t)

\* The calls of the last operation to the Voice's gain stage.
GainCalls ==
    SelectSeq(last.calls,
              LAMBDA c : c.t \in {"gain.cancelScheduledValues",
                                  "gain.exponentialRamp", "gain.connect",
                                  "gain.disconnect"})

\* The bank the last operation was called on, before and after it.
BankBefore == last.pre.oscillatorBanks[last.bank + 1]
BankAfter == oscillatorBanks[last.bank + 1]

\* A level as the gain stage gets it: zero is replaced by the floor.
Floored(level) == IF level = 0 THEN GainFloor ELSE level

\* Every field of the Voice is as the last operation found it.
VoiceUnchanged ==
    /\ state = last.pre.state
    /\ pitch = last.pre.pitch
    /\ adsr = last.pre.adsr
    /\ oscillatorBanks = last.pre.oscillatorBanks

\* C1: OscillatorBank.update on a bank of N oscillators with a layer of M
\* partials leaves M oscillators; the first min(N, M) are the oscillators
\* that were there, in order, and each got update(partial i) for its own
\* place i, once; when M > N the oscillators at N..M-1 are new and were built
\* from the partials N..M-1 in that order.
BankUpdateReconciles ==
    last.op = "bank.update" =>
        LET before == BankBefore.oscillators
            after == BankAfter.oscillators
            partials == last.partials
            N == Len(before)
            M == Len(partials)
            common == IF N < M THEN N ELSE M
        IN  /\ Len(after) = M
            /\ \A i \in 1..common : after[i].id = before[i].id
            /\ CallsOf("osc.update")
                 = [i \in 1..common |->
                       CallP("osc.update", before[i].id, partials[i])]
            /\ \A i \in (N + 1)..M :
                 /\ after[i].id >= last.pre.nextId
                 /\ \A j \in 1..(i - 1) : after[j].id # after[i].id
            /\ CallsOf("osc.new")
                 = [i \in 1..(M - common) |->
                       CallP("osc.new", after[common + i].id, partials[common + i])]

\* C1's case: a bank of one oscillator updated with a layer of two partials.
BankUpdateGrows ==
    /\ last.op = "bank.update"
    /\ Len(BankBefore.oscillators) = 1
    /\ Len(last.partials) = 2
    /\ Len(BankAfter.oscillators) = 2

\* C2: Voice.update on a Voice that is not used, owning N banks, with a
\* spectrum of M layers leaves M banks; the first min(N, M) are the banks that
\* were there, in order; bank i has as many oscillators as layer i has
\* partials; the banks at N..M-1 are new.
VoiceUpdateReconciles ==
    (last.op = "update" /\ last.pre.state # "used") =>
        LET before == last.pre.oscillatorBanks
            after == oscillatorBanks
            spectrum == last.spectrum
            N == Len(before)
            M == Len(spectrum)
            common == IF N < M THEN N ELSE M
        IN  /\ Len(after) = M
            /\ \A i \in 1..common : after[i].id = before[i].id
            /\ \A i \in 1..M : Len(after[i].oscillators) = Len(spectrum[i])
            /\ \A i \in (N + 1)..M :
                 /\ after[i].id >= last.pre.nextId
                 /\ \A j \in 1..(i - 1) : after[j].id # after[i].id
                 /\ Len(SelectSeq(last.calls,
                                  LAMBDA c : c.t = "bank.new" /\ c.id = after[i].id)) = 1

\* C2's case: update([{partials: []}, {partials: [A]}]) on a Voice with one
\* bank that has oscillators: two banks, the first one emptied.
VoiceUpdateEmptiesAndGrows ==
    /\ last.op = "update"
    /\ last.pre.state # "used"
    /\ last.spectrum = << <<>>, <<PartialA>> >>
    /\ Len(last.pre.oscillatorBanks) = 1
    /\ Len(last.pre.oscillatorBanks[1].oscillators) > 0
    /\ Len(oscillatorBanks) = 2
    /\ oscillatorBanks[1].oscillators = <<>>

\* C3: on a used Voice play and update are no-ops: state, pitch, banks and
\* their oscillators are as before, and no call is issued to the gain stage,
\* to a bank or to an oscillator.
UsedPlayUpdateNoop ==
    (last.op \in {"play", "update"} /\ last.pre.state = "used") =>
        /\ state = "used"
        /\ pitch = last.pre.pitch
        /\ oscillatorBanks = last.pre.oscillatorBanks
        /\ last.calls = <<>>

\* C3's case: play on a used Voice that owns banks with oscillators.
UsedVoicePlayed ==
    /\ last.op = "play"
    /\ last.pre.state = "used"
    /\ Len(oscillatorBanks) > 0
    /\ Len(oscillatorBanks[1].oscillators) > 0

\* C4: once the state is used it is used after every later operation, and a
\* destroy of a used Voice leaves the banks as they are.
UsedIsTerminal ==
    [][state = "used" =>
          /\ state' = "used"
          /\ last'.op = "destroy" => oscillatorBanks' = last'.pre.oscillatorBanks]_vars

\* C4's case: destroy called again on a used Voice that owns a bank.
DestroyedTwice ==
    /\ last.op = "destroy"
    /\ last.pre.state = "used"
    /\ state = "used"
    /\ Len(oscillatorBanks) > 0

\* C5 as stated: on a used Voice play, update, release, setGain and updateAdsr
\* issue no call and change no field.
UsedIgnoresEveryCall ==
    (last.op \in {"play", "update", "release", "setGain", "updateAdsr"}
       /\ last.pre.state = "used") =>
        /\ last.calls = <<>>
        /\ VoiceUnchanged

\* C5 as amended: on a used Voice none of the five changes state, pitch or
\* banks or issues a call to a bank or an oscillator; play and update issue no
\* call at all and leave the envelope; release still cancels and schedules its
\* two ramps, setGain still schedules its ramp, and updateAdsr still replaces
\* the envelope.
UsedIgnoresPlayAndUpdate ==
    (last.op \in {"play", "update", "release", "setGain", "updateAdsr"}
       /\ last.pre.state = "used") =>
        /\ state = "used"
        /\ pitch = last.pre.pitch
        /\ oscillatorBanks = last.pre.oscillatorBanks
        /\ last.calls = GainCalls
        /\ last.op \in {"play", "update"} =>
             last.calls = <<>> /\ adsr = last.pre.adsr
        /\ last.op = "release" =>
             /\ adsr = last.pre.adsr
             /\ last.calls =
                  <<Call("gain.cancelScheduledValues", VoiceGain, last.time, NoArg),
                    Call("gain.exponentialRamp", VoiceGain, Floored(last.read),
                         last.time),
                    Call("gain.exponentialRamp", VoiceGain, GainFloor,
                         last.time + last.pre.adsr.release)>>
        /\ last.op = "setGain" =>
             /\ adsr = last.pre.adsr
             /\ last.calls =
                  <<Call("gain.exponentialRamp", VoiceGain, Floored(last.value),
                         last.time)>>
        /\ last.op = "updateAdsr" => last.calls = <<>> /\ adsr = last.adsr

\* C5's case: release on a used Voice, which reaches the gain stage.
UsedVoiceReleased ==
    /\ last.op = "release"
    /\ last.pre.state = "used"
    /\ Len(last.calls) = 3


RemoveOutOfRangeIsNoop ==
    last.op = "bank.removeOscillator" =>
        LET before == BankBefore.oscillators
            after == BankAfter.oscillators
            index == last.index
        IN  IF index < 0 \/ index >= Len(before)
            THEN /\ last.ret = Undefined
                 /\ last.calls = <<>>
                 /\ after = before
            ELSE /\ last.ret = [kind |-> "oscillator", id |-> before[index + 1].id]
                 /\ last.calls =
                      <<Call("osc.destroy", before[index + 1].id, NoArg, NoArg)>>
                 /\ after = [i \in 1..(Len(before) - 1) |->
                               IF i <= index THEN before[i] ELSE before[i + 1]]

\* C8: get({oscIndex, partialIndex}) is undefined when oscIndex is absent or 0
\* or no bank is at oscIndex; else the bank at oscIndex when partialIndex is
\* absent or 0; else the oscillator at partialIndex of that bank, or undefined
\* out of range.  get changes nothing and issues no call.
GetAddresses ==
    last.op = "get" =>
        LET banks == last.pre.oscillatorBanks
            oi == last.oscIndex
            pi == last.partialIndex
            expected ==
                IF oi = Absent \/ oi = 0 THEN Undefined
                ELSE IF oi < 0 \/ oi >= Len(banks) THEN Undefined
                ELSE IF pi = Absent \/ pi = 0
                     THEN [kind |-> "bank", id |-> banks[oi + 1].id]
                ELSE IF pi < 0 \/ pi >= Len(banks[oi + 1].oscillators)
                     THEN Undefined
                ELSE [kind |-> "oscillator",
                      id |-> banks[oi + 1].oscillators[pi + 1].id]
        IN  /\ last.ret = expected
            /\ VoiceUnchanged
            /\ last.calls = <<>>

\* C8's case: get({oscIndex: 1, partialIndex: 0}) gives the bank at index 1,
\* which has an oscillator at index 0.
GetGivesBankForPartialZero ==
    /\ last.op = "get"
    /\ last.oscIndex = 1
    /\ last.partialIndex = 0
    /\ Len(oscillatorBanks) = 2
    /\ Len(oscillatorBanks[2].oscillators) > 0
    /\ last.ret = [kind |-> "bank", id |-> oscillatorBanks[2].id]

\* The calls play forwards to the banks it found, in layer order.
BankPlaysForwarded ==
    CallsOf("bank.play")
      = [i \in 1..Len(last.pre.oscillatorBanks) |->
            Call("bank.play", last.pre.oscillatorBanks[i].id, last.p, last.time)]

\* C9 as stated: play(pitch, velocity, time) on a ready Voice records pitch,
\* forwards play(pitch, time) once to every bank in layer order, ends playing,
\* and issues to the gain stage one ramp to the floor, then a ramp to velocity
\* ending at time + attack, then a ramp to velocity * sustain ending at
\* time + attack + decay, and no cancel.
PlayReadyRampsToVelocity ==
    (last.op = "play" /\ last.pre.state = "ready") =>
        /\ pitch = last.p
        /\ state = "playing"
        /\ BankPlaysForwarded
        /\ GainCalls =
             <<Call("gain.exponentialRamp", VoiceGain, GainFloor, last.now),
               Call("gain.exponentialRamp", VoiceGain, last.velocity * 100,
                    last.time + last.pre.adsr.attack),
               Call("gain.exponentialRamp", VoiceGain,
                    last.velocity * last.pre.adsr.sustain,
                    last.time + last.pre.adsr.attack + last.pre.adsr.decay)>>

\* C9 as amended: the same, with the floor for a target of velocity or of
\* velocity * sustain that is zero.
PlayReadyRampsToFlooredVelocity ==
    (last.op = "play" /\ last.pre.state = "ready") =>
        /\ pitch = last.p
        /\ state = "playing"
        /\ BankPlaysForwarded
        /\ GainCalls =
             <<Call("gain.exponentialRamp", VoiceGain, GainFloor, last.now),
               Call("gain.exponentialRamp", VoiceGain, Floored(last.velocity * 100),
                    last.time + last.pre.adsr.attack),
               Call("gain.exponentialRamp", VoiceGain,
                    Floored(last.velocity * last.pre.adsr.sustain),
                    last.time + last.pre.adsr.attack + last.pre.adsr.decay)>>

\* C9's case: a Voice of one bank with attack 1, decay 1, sustain 50%, played
\* at velocity 1.
ReadyVoicePlayed ==
    /\ last.op = "play"
    /\ last.pre.state = "ready"
    /\ last.velocity = 1
    /\ last.pre.adsr = [attack |-> 1, decay |-> 1, sustain |-> 50, release |-> 2]
    /\ Len(last.pre.oscillatorBanks) = 1
    /\ state = "playing"

\* C10: the Voice starts ready; play takes ready and playing to playing,
\* destroy takes every state to used, and no other operation changes the
\* state; no operation takes the Voice back to ready.
VoiceStateMachine ==
    /\ last.op = "construct" => state = "ready"
    /\ last.op = "play" =>
         <<last.pre.state, state>>
           \in {<<"ready", "playing">>, <<"playing", "playing">>, <<"used", "used">>}
    /\ last.op = "destroy" => state = "used"
    /\ last.op \in {"release", "update", "setGain", "updateAdsr", "get",
                    "getOscillators"} => state = last.pre.state
    /\ (last.op # "construct" /\ last.pre.state # "ready") => state # "ready"

\* C10's case: release on a playing Voice, which stays playing.
PlayingVoiceReleased ==
    /\ last.op = "release"
    /\ last.pre.state = "playing"
    /\ state = "playing"


\* C11: a bank's state is ready or playing, never used, whatever sequence of
\* bank operations it went through, a stop by its Voice's destroy included;
\* stop and destroy leave the bank's state as it was, so a bank that has
\* played is still playing after stop.
BankStateNeverUsed ==
    /\ \A i \in 1..Len(oscillatorBanks) :
         oscillatorBanks[i].state \in {"ready", "playing"}
    /\ last.op \in {"bank.stop", "bank.destroy"} =>
         BankAfter.state = BankBefore.state
    /\ last.op = "destroy" =>
         /\ Len(oscillatorBanks) = Len(last.pre.oscillatorBanks)
         /\ \A i \in 1..Len(oscillatorBanks) :
              oscillatorBanks[i].state = last.pre.oscillatorBanks[i].state

\* C11's case: stop called on a playing bank that has an oscillator.
PlayingBankStopped ==
    /\ last.op = "bank.stop"
    /\ BankBefore.state = "playing"
    /\ Len(BankBefore.oscillators) > 0
    /\ BankAfter.state = "playing"


\* C12: createOscillator(partial) appends one new oscillator, built from
\* partial, after the oscillators that were there, which stay in place; the
\* new oscillator gets play with the bank's recorded pitch when the bank is
\* playing and no play when it is not; so every oscillator of a playing bank
\* has got play with the pitch of the bank's latest play, and no oscillator
\* of a bank that is ready has got play.
CreateOscillatorPlaysIfPlaying ==
    /\ last.op = "bank.createOscillator" =>
         LET before == BankBefore.oscillators
             after == BankAfter.oscillators
             new == after[Len(after)]
         IN  /\ Len(after) = Len(before) + 1
             /\ SubSeq(after, 1, Len(before)) = before
             /\ \A i \in 1..Len(before) : before[i].id # new.id
             /\ BankAfter.state = BankBefore.state
             /\ BankAfter.pitch = BankBefore.pitch
             /\ last.calls =
                  <<CallP("osc.new", new.id, last.partials[1])>>
                    \o (IF BankBefore.state = "playing"
                        THEN <<Call("osc.play", new.id, BankBefore.pitch, NoArg)>>
                        ELSE <<>>)
    /\ \A i \in 1..Len(oscillatorBanks) :
         \A j \in 1..Len(oscillatorBanks[i].oscillators) :
             oscillatorBanks[i].oscillators[j].pitch =
                 IF oscillatorBanks[i].state = "playing"
                 THEN oscillatorBanks[i].pitch
                 ELSE NeverPlayed

\* C12's case: createOscillator on a playing bank that has an oscillator and
\* was played at a pitch other than the one it was built with.
PlayingBankGrown ==
    /\ last.op = "bank.createOscillator"
    /\ BankBefore.state = "playing"
    /\ BankBefore.pitch = 880
    /\ Len(BankBefore.oscillators) > 0
    /\ BankAfter.oscillators[Len(BankAfter.oscillators)].pitch = 880


\* The last n calls of the last operation to the Voice's gain stage.
LastGainCalls(n) == SubSeq(GainCalls, Len(GainCalls) - n + 1, Len(GainCalls))

\* C13: updateAdsr(adsr) replaces the envelope and nothing else: state, pitch
\* and banks stay, no call is issued, and every change the operation before it
\* scheduled on the gain stage is still scheduled, unaltered; a play (on a
\* Voice that is not used) or a release that comes next takes its ramp end
\* times and its sustain level from the new envelope.
UpdateAdsrReplacesEnvelopeOnly ==
    [][/\ last'.op = "updateAdsr" =>
            /\ adsr' = last'.adsr
            /\ state' = last'.pre.state
            /\ pitch' = last'.pre.pitch
            /\ oscillatorBanks' = last'.pre.oscillatorBanks
            /\ last'.calls = <<>>
            /\ Scheduled(Scheduled({}, last.calls), last'.calls)
                 = Scheduled({}, last.calls)
       /\ (last.op = "updateAdsr" /\ last'.op = "play" /\ state # "used") =>
            /\ LastGainCalls(2)' =
                 <<Call("gain.exponentialRamp", VoiceGain,
                        Floored(last'.velocity * 100),
                        last'.time + last.adsr.attack),
                   Call("gain.exponentialRamp", VoiceGain,
                        Floored(last'.velocity * last.adsr.sustain),
                        last'.time + last.adsr.attack + last.adsr.decay)>>
            /\ state = "playing" =>
                 GainCalls'[3] =
                     Call("gain.exponentialRamp", VoiceGain,
                          Floored(last'.velocity * last.adsr.sustain), last'.time)
       /\ (last.op = "updateAdsr" /\ last'.op = "release") =>
            LastGainCalls(1)' =
                <<Call("gain.exponentialRamp", VoiceGain, GainFloor,
                       last'.time + last.adsr.release)>>
      ]_vars

\* C13's case: updateAdsr on a playing Voice, whose play scheduled ramps, with
\* an envelope other than the one in force.
PlayingVoiceGivenNewEnvelope ==
    /\ last.op = "updateAdsr"
    /\ state = "playing"
    /\ last.adsr # last.pre.adsr
    /\ adsr = last.adsr


\* The identities in a sequence of objects or of calls, in order, and as a set.
Ids(seq) == [i \in 1..Len(seq) |-> seq[i].id]
IdSet(seq) == {seq[i].id : i \in 1..Len(seq)}

\* Every oscillator of the given banks, bank by bank.
OscillatorsOf(banks) ==
    Concat([i \in 1..Len(banks) |-> banks[i].oscillators])

\* The calls are to distinct objects, all among before and none among after.
DestroyedOnceAndGone(calls, before, after) ==
    /\ \A i, j \in 1..Len(calls) : calls[i].id = calls[j].id => i = j
    /\ IdSet(calls) \subseteq IdSet(before)
    /\ IdSet(calls) \cap IdSet(after) = {}

\* C14: an update with M descriptors of N > M children removes the children
\* at M..N-1 and destroys each of them once, in ascending place, and keeps the
\* children at 0..M-1, which are not destroyed; this for a bank's oscillators
\* and for the banks of a Voice that is not used.  In every update whatever is
\* destroyed was in the collection, is destroyed once and is in the collection
\* no more, and whatever is in the collection afterwards was there or is new:
\* so nothing is destroyed twice and nothing kept has been destroyed.
ShrinkDestroysTailInOrder ==
    /\ last.op = "bank.update" =>
         LET before == BankBefore.oscillators
             after == BankAfter.oscillators
             N == Len(before)
             M == Len(last.partials)
         IN  /\ M < N =>
                  /\ after = SubSeq(before, 1, M)
                  /\ CallsOf("osc.destroy")
                       = [i \in 1..(N - M) |->
                             Call("osc.destroy", before[M + i].id, NoArg, NoArg)]
             /\ M >= N => CallsOf("osc.destroy") = <<>>
    /\ (last.op = "update" /\ last.pre.state # "used") =>
         LET before == last.pre.oscillatorBanks
             after == oscillatorBanks
             N == Len(before)
             M == Len(last.spectrum)
         IN  /\ M < N =>
                  /\ Ids(after) = Ids(SubSeq(before, 1, M))
                  /\ CallsOf("bank.destroy")
                       = [i \in 1..(N - M) |->
                             Call("bank.destroy", before[M + i].id, NoArg, NoArg)]
             /\ M >= N => CallsOf("bank.destroy") = <<>>
    /\ last.op \in {"update", "bank.update"} =>
         /\ DestroyedOnceAndGone(CallsOf("bank.destroy"),
                                 last.pre.oscillatorBanks, oscillatorBanks)
         /\ DestroyedOnceAndGone(CallsOf("osc.destroy"),
                                 OscillatorsOf(last.pre.oscillatorBanks),
                                 OscillatorsOf(oscillatorBanks))
         /\ \A id \in IdSet(oscillatorBanks) \cup IdSet(OscillatorsOf(oscillatorBanks)) :
              \/ id >= last.pre.nextId
              \/ id \in IdSet(last.pre.oscillatorBanks)
                          \cup IdSet(OscillatorsOf(last.pre.oscillatorBanks))

\* C14's case: a Voice of two banks, the first with two oscillators, updated
\* with the spectrum of no layer: both banks go, the first one first.
VoiceUpdateRemovesTwoBanks ==
    /\ last.op = "update"
    /\ last.pre.state # "used"
    /\ Len(last.pre.oscillatorBanks) = 2
    /\ Len(last.pre.oscillatorBanks[1].oscillators) = 2
    /\ last.spectrum = <<>>
    /\ oscillatorBanks = <<>>
    /\ Len(CallsOf("bank.destroy")) = 2


\* The calls among calls that cancel scheduled changes of the Voice's gain stage.
Cancels(calls) == SelectSeq(calls, LAMBDA c : c.t = "gain.cancelScheduledValues")

\* The changes among pending that the calls leave scheduled.
Surviving(pending, calls) == Scheduled(pending, Cancels(calls))

\* C15 as stated: when play or release schedules ramps for a time, no change
\* that an earlier operation (here: the operation before it) scheduled on the
\* Voice's gain stage for that time or later is still scheduled afterwards.
NoStaleRampAfterReschedule ==
    [][(/\ last'.op \in {"play", "release"}
        /\ CallsOf("gain.exponentialRamp")' # <<>>) =>
           \A e \in Surviving(Scheduled({}, last.calls), last'.calls) :
               e.time < last'.time
      ]_vars


\* The calls of the last operation that the Voice itself issues, to its gain
\* stage and to its banks, in order of issue.
VoiceCalls ==
    SelectSeq(last.calls,
              LAMBDA c : c.t \in {"gain.cancelScheduledValues",
                                  "gain.exponentialRamp", "gain.connect",
                                  "gain.disconnect", "bank.play", "bank.stop",
                                  "bank.update", "bank.destroy", "bank.new"})

\* C16 as stated: play(pitch, velocity, time) on a playing Voice issues, in
\* this order, a cancel at time, a ramp to the gain value read at time, a ramp
\* to velocity * sustain at time, play(pitch, time) to every bank, a ramp to
\* velocity at time + attack and a ramp to velocity * sustain at
\* time + attack + decay; it stays playing and records the new pitch.
RetriggerCallsInOrder ==
    (last.op = "play" /\ last.pre.state = "playing") =>
        /\ state = "playing"
        /\ pitch = last.p
        /\ VoiceCalls =
             <<Call("gain.cancelScheduledValues", VoiceGain, last.time, NoArg),
               Call("gain.exponentialRamp", VoiceGain, last.read, last.time),
               Call("gain.exponentialRamp", VoiceGain,
                    last.velocity * last.pre.adsr.sustain, last.time)>>
             \o [i \in 1..Len(last.pre.oscillatorBanks) |->
                    Call("bank.play", last.pre.oscillatorBanks[i].id, last.p,
                         last.time)]
             \o <<Call("gain.exponentialRamp", VoiceGain, last.velocity * 100,
                       last.time + last.pre.adsr.attack),
                  Call("gain.exponentialRamp", VoiceGain,
                       last.velocity * last.pre.adsr.sustain,
                       last.time + last.pre.adsr.attack + last.pre.adsr.decay)>>

\* C16 as amended: the same, with the floor for a target (the gain value
\* read, velocity, velocity * sustain) that is zero.
RetriggerFlooredCallsInOrder ==
    (last.op = "play" /\ last.pre.state = "playing") =>
        /\ state = "playing"
        /\ pitch = last.p
        /\ VoiceCalls =
             <<Call("gain.cancelScheduledValues", VoiceGain, last.time, NoArg),
               Call("gain.exponentialRamp", VoiceGain, Floored(last.read),
                    last.time),
               Call("gain.exponentialRamp", VoiceGain,
                    Floored(last.velocity * last.pre.adsr.sustain), last.time)>>
             \o [i \in 1..Len(last.pre.oscillatorBanks) |->
                    Call("bank.play", last.pre.oscillatorBanks[i].id, last.p,
                         last.time)]
             \o <<Call("gain.exponentialRamp", VoiceGain,
                       Floored(last.velocity * 100),
                       last.time + last.pre.adsr.attack),
                  Call("gain.exponentialRamp", VoiceGain,
                       Floored(last.velocity * last.pre.adsr.sustain),
                       last.time + last.pre.adsr.attack + last.pre.adsr.decay)>>

\* C16's case: a playing Voice of two banks played again at another pitch,
\* at velocity 1 with sustain 50% while its gain reads 0.5.
PlayingVoiceRetriggered ==
    /\ last.op = "play"
    /\ last.pre.state = "playing"
    /\ last.p # last.pre.pitch
    /\ last.velocity = 1
    /\ last.read = 50
    /\ last.pre.adsr.sustain = 50
    /\ Len(last.pre.oscillatorBanks) = 2
    /\ pitch = last.p


\* C17: no exponential ramp to exactly zero is ever issued to the Voice's gain
\* stage: whatever play, release and setGain are given (velocity 0, sustain
\* 0, a gain value read as 0, setGain(0)), every ramp target is positive, and
\* a target of zero is issued as the floor.
NoRampToZero ==
    /\ \A i \in 1..Len(last.calls) :
         last.calls[i].t = "gain.exponentialRamp" =>
             /\ last.calls[i].a # 0
             /\ last.calls[i].a >= GainFloor
    /\ last.op = "setGain" =>
         CallsOf("gain.exponentialRamp")
           = <<Call("gain.exponentialRamp", VoiceGain,
                    IF last.value = 0 THEN GainFloor ELSE last.value, last.time)>>
    /\ last.op = "release" =>
         /\ Len(CallsOf("gain.exponentialRamp")) = 2
         /\ CallsOf("gain.exponentialRamp")[1].a
              = (IF last.read = 0 THEN GainFloor ELSE last.read)
         /\ CallsOf("gain.exponentialRamp")[2].a = GainFloor
    /\ (last.op = "play" /\ last.pre.state # "used" /\ last.velocity = 0) =>
         \A i \in 1..Len(last.calls) :
             (last.calls[i].t = "gain.exponentialRamp" /\ last.calls[i].b > last.time)
               => last.calls[i].a = GainFloor

\* C17's case: setGain(0) on a playing Voice, issued as a ramp to the floor.
ZeroGainSet ==
    /\ last.op = "setGain"
    /\ last.value = 0
    /\ state = "playing"
    /\ last.calls = <<Call("gain.exponentialRamp", VoiceGain, GainFloor, last.time)>>


\* C18: an update with as many descriptors as the collection has children
\* creates no child, removes and destroys none, keeps the same children in the
\* same order and calls update once on every child, in order; this for a
\* bank's oscillators and for the banks of a Voice that is not used.  The same
\* update applied again right after leaves the collection as the first left it.
SameLengthUpdateKeepsMembers ==
    [][/\ (last'.op = "bank.update"
            /\ Len(last'.partials)
                 = Len(last'.pre.oscillatorBanks[last'.bank + 1].oscillators)) =>
            LET before == last'.pre.oscillatorBanks[last'.bank + 1].oscillators
                after == oscillatorBanks'[last'.bank + 1].oscillators
            IN  /\ after = before
                /\ last'.calls =
                     [i \in 1..Len(before) |->
                         CallP("osc.update", before[i].id, last'.partials[i])]
       /\ (last'.op = "update" /\ last'.pre.state # "used"
            /\ Len(last'.spectrum) = Len(last'.pre.oscillatorBanks)) =>
            LET before == last'.pre.oscillatorBanks
                after == oscillatorBanks'
                issued == SelectSeq(last'.calls,
                                    LAMBDA c : c.t \in {"bank.update", "bank.new",
                                                        "bank.destroy"})
            IN  /\ Ids(after) = Ids(before)
                /\ issued =
                     [i \in 1..Len(before) |->
                         Call("bank.update", before[i].id, Len(last'.spectrum[i]),
                              NoArg)]
       /\ (last.op = "update" /\ last'.op = "update"
            /\ last'.spectrum = last.spectrum) =>
            oscillatorBanks' = last'.pre.oscillatorBanks
       /\ (last.op = "bank.update" /\ last'.op = "bank.update"
            /\ last'.bank = last.bank /\ last'.partials = last.partials) =>
            oscillatorBanks' = last'.pre.oscillatorBanks
      ]_vars

\* C18's case: a playing Voice of two banks, each with oscillators, updated
\* with a spectrum of two layers of the same lengths.
VoiceUpdatedWithSameShape ==
    /\ last.op = "update"
    /\ last.pre.state = "playing"
    /\ Len(last.pre.oscillatorBanks) = 2
    /\ Len(last.spectrum) = 2
    /\ \A i \in 1..2 :
         /\ Len(last.pre.oscillatorBanks[i].oscillators) = Len(last.spectrum[i])
         /\ Len(last.spectrum[i]) > 0
    /\ oscillatorBanks = last.pre.oscillatorBanks
    /\ Len(CallsOf("osc.update")) >= 2


\* C19: destroy sets the state to used, forwards stop once to every bank in
\* order, played or not, each bank forwarding it to its oscillators, and then
\* disconnects the Voice's gain stage; it issues no other call, destroys no
\* bank and no oscillator, and leaves the banks, their states and their
\* oscillators as they were.
DestroyStopsAndKeepsBanks ==
    last.op = "destroy" =>
        /\ state = "used"
        /\ pitch = last.pre.pitch
        /\ adsr = last.pre.adsr
        /\ oscillatorBanks = last.pre.oscillatorBanks
        /\ VoiceCalls =
             [i \in 1..Len(last.pre.oscillatorBanks) |->
                 Call("bank.stop", last.pre.oscillatorBanks[i].id, last.now, NoArg)]
             \o <<Call("gain.disconnect", VoiceGain, NoArg, NoArg)>>
        /\ Ids(CallsOf("osc.stop")) = Ids(OscillatorsOf(last.pre.oscillatorBanks))
        /\ \A i \in 1..Len(last.calls) :
             last.calls[i].t \in {"bank.stop", "osc.stop", "gain.disconnect"}

\* C19's case: destroy of a Voice that was never played and owns two banks,
\* the first with oscillators.
ReadyVoiceDestroyed ==
    /\ last.op = "destroy"
    /\ last.pre.state = "ready"
    /\ Len(last.pre.oscillatorBanks) = 2
    /\ Len(last.pre.oscillatorBanks[1].oscillators) > 0
    /\ state = "used"
    /\ Len(oscillatorBanks) = 2
    /\ Len(CallsOf("bank.stop")) = 2


\* C20: under the Voice's own operations, every bank of a ready Voice is
\* ready, and every bank of a playing Voice, a bank made by update while the
\* Voice plays included, is playing with the pitch the Voice recorded.
BanksFollowVoice ==
    /\ state = "ready" =>
         \A i \in 1..Len(oscillatorBanks) : oscillatorBanks[i].state = "ready"
    /\ state = "playing" =>
         \A i \in 1..Len(oscillatorBanks) :
             /\ oscillatorBanks[i].state = "playing"
             /\ oscillatorBanks[i].pitch = pitch

\* C20's case: an update of a playing Voice, played at 880, that adds a bank.
PlayingVoiceGrown ==
    /\ last.op = "update"
    /\ last.pre.state = "playing"
    /\ pitch = 880
    /\ Len(oscillatorBanks) > Len(last.pre.oscillatorBanks)
    /\ oscillatorBanks[Len(oscillatorBanks)].state = "playing"
    /\ oscillatorBanks[Len(oscillatorBanks)].pitch = 880


====
